---- MODULE Spec2Model ----
(***************************************************************************)
(* A model of Damage.py: the armor mitigation function, the stat           *)
(* aggregation of ApheliosSimulator and its lru_cache, the combat          *)
(* simulator, the legality predicate and the chunked search driver.        *)
(*                                                                         *)
(* Numbers.  Python floats are modelled by exact fixed-point integers:     *)
(* item stats, character stats and percent penetration in hundredths       *)
(* (0.30 is 30, 94.1 is 9410); armor, lethality and raw damage of the      *)
(* mitigation function in whole points; a mitigated damage as the exact    *)
(* fraction [num, den].                                                    *)
(***************************************************************************)
EXTENDS Integers, Sequences, FiniteSets, TLC

VARIABLES
    mitArgs,      \* the arguments of one apply_physical_mitigation call
    mitResult,    \* what the call returned: <<>> before, [num, den] after
    sims,         \* the ApheliosSimulator instances constructed so far
    cache,        \* the lru_cache of _calculate_base_stats, least recent first
    hits,         \* cache_info().hits
    misses,       \* cache_info().misses: executions of the function body
    request,      \* the last call of _calculate_base_stats: arguments and result
    sim,          \* the fields of the simulator the combat methods change
    calls,        \* how often each combat method has been called on sim
    pc,           \* where calculate_dps stands: "idle", "loop", "gate", "done", "raised"
    duration,     \* the duration calculate_dps was called with, in ticks
    tick,         \* what the last simulate_attack call did: <<>> before the first
    total_damage, \* calculate_dps: total_damage, in 1/10000 of total_ad, unmitigated
    dps_result,   \* what calculate_dps came to: <<>> before, <<outcome>> after
    rotated_at,   \* self.time when the last rotate_weapon call returned: <<>> or <<t>>
    combo_arg,    \* the combo of one is_valid_build call
    valid_result, \* what the call returned: <<>> before, <<True or False>> after
    catalog,      \* ITEMS.keys() of the run of optimize_aphelios_build
    chunk_size,   \* its chunk_size argument
    futures,      \* the chunks submitted to the executor, in submission order
    pending,      \* the futures that have not completed yet
    all_results,  \* the results collected so far
    returned,     \* the list optimize_aphelios_build returns
    opt_pc,       \* where it stands: "idle", "start", "collect", "done"
    chunk_builds, \* the builds of one simulate_build_chunk call
    chunk_results \* what the call returned: <<>> before, <<results>> after

mitVars  == <<mitArgs, mitResult>>
statVars == <<sims, cache, hits, misses, request>>
simVars  == <<sim, calls, pc, duration, tick, total_damage, dps_result, rotated_at>>
validVars == <<combo_arg, valid_result>>
optVars  == <<catalog, chunk_size, futures, pending, all_results, returned, opt_pc,
              chunk_builds, chunk_results>>
vars     == <<mitArgs, mitResult, sims, cache, hits, misses, request,
              sim, calls, pc, duration, tick, total_damage, dps_result, rotated_at,
              combo_arg, valid_result,
              catalog, chunk_size, futures, pending, all_results, returned, opt_pc,
              chunk_builds, chunk_results>>

(***************************************************************************)
(* Bounds of the model.                                                    *)
(***************************************************************************)
MaxItems == 2   \* longest item list handed to a simulator
MaxSims  == 2   \* simulator instances constructed in one process
MaxCalls == 3   \* calls of _calculate_base_stats in one process
MaxAttacks    == 255   \* direct calls of simulate_attack on one simulator
MaxOtherCalls == 1     \* direct calls of simulate_ability and rotate_weapon on it
MaxDuration   == 120   \* longest duration handed to calculate_dps, in seconds
MaxComboLen   == 5     \* longest combo handed to is_valid_build
MaxChunkSize  == 3     \* largest chunk_size handed to optimize_aphelios_build
MaxChunks     == 3     \* most chunks one run is split into
MaxDps        == 1     \* largest dps a simulation comes to, in whole units
MaxBuilds     == 3     \* most builds handed to simulate_build_chunk
MaxRotations    == 6   \* direct calls of rotate_weapon in a run about the queue
MaxQueueAttacks == 2   \* direct calls of simulate_attack in such a run
MaxQueueCasts   == 5   \* direct calls of simulate_ability in such a run

(***************************************************************************)
(* Program constants, in hundredths where they are stats.                  *)
(***************************************************************************)
BASE_AD_LEVEL18     == 9410
BASE_AS             == 64
DEFAULT_CRIT_DAMAGE == 175
BASE_HEALTH         == 233400
BASE_MANA           == 106200
BASE_ARMOR          == 9740
BASE_MR             == 5210
BASE_MOVE_SPEED     == 32500
PASSIVE_AD          == 6800
CACHE_MAXSIZE       == 128

Max(a, b) == IF a >= b THEN a ELSE b
Min(a, b) == IF a <= b THEN a ELSE b

RECURSIVE SumSeq(_)
SumSeq(s) == IF s = <<>> THEN 0 ELSE Head(s) + SumSeq(Tail(s))

(***************************************************************************)
(* One entry of an item's dict: the key, the Python type of the value and  *)
(* the value.  float(True) is 1.0, so a bool carries 100 or 0.             *)
(***************************************************************************)
Num(s, v)  == [stat |-> s, kind |-> "float", val |-> v, tup |-> <<>>, str |-> ""]
Tup(s, t)  == [stat |-> s, kind |-> "tuple", val |-> 0, tup |-> t, str |-> ""]
Bool(s, b) == [stat |-> s, kind |-> "bool", val |-> IF b THEN 100 ELSE 0, tup |-> <<>>, str |-> ""]
Str(s, x)  == [stat |-> s, kind |-> "str", val |-> 0, tup |-> <<>>, str |-> x]

(***************************************************************************)
(* ITEMS: the item catalog, keys in the dict's order, values in            *)
(* hundredths, each item's entries in the order of its dict.               *)
(***************************************************************************)
ItemKeys ==
  << "Muramana",
     "Axiom Arc",
     "Black Cleaver",
     "Blade of the Ruined King",
     "Bloodthirster",
     "Death's Dance",
     "Eclipse",
     "Essence Reaver",
     "Guinsoo's Rageblade",
     "Hubris",
     "Hullbreaker",
     "Immortal Shieldbow",
     "Infinity Edge",
     "Kraken Slayer",
     "Lord Dominik's Regards",
     "Maw of Malmortius",
     "Mercurial Scimitar",
     "Mortal Reminder",
     "Nashor's Tooth",
     "Navori Flickerblade",
     "Opportunity",
     "Phantom Dancer",
     "Rapid Firecannon",
     "Ravenous Hydra",
     "Runaan's Hurricane",
     "Serpent's Fang",
     "Serylda's Grudge",
     "Statikk Shiv",
     "Sterak's Gage",
     "Sundered Sky",
     "Terminus",
     "The Collector",
     "Trinity Force",
     "Voltaic Cyclosword",
     "Wit's End",
     "Youmuu's Ghostblade" >>

ITEMS ==
  ("Muramana" :>
      << Num("AD", 4929),
         Num("Ability Haste", 3100),
         Num("Mana", 86000),
         Str("name", "Muramana") >>) @@
  ("Axiom Arc" :>
      << Num("AD", 5500),
         Num("Ability Haste", 2000),
         Num("Lethality", 1800),
         Num("UltimateRefund", 15),
         Str("name", "Axiom Arc") >>) @@
  ("Black Cleaver" :>
      << Num("AD", 4000),
         Num("Ability Haste", 2000),
         Num("Health", 40000),
         Num("ArmorPen", 30),
         Str("name", "Black Cleaver") >>) @@
  ("Blade of the Ruined King" :>
      << Num("AD", 4000),
         Num("Attack Speed", 25),
         Num("Lifesteal", 10),
         Num("OnHitCurrentHealth", 8),
         Str("name", "Blade of the Ruined King") >>) @@
  ("Bloodthirster" :>
      << Num("AD", 8000),
         Num("Lifesteal", 15),
         Tup("Shield", <<16500, 31500>>),
         Str("name", "Bloodthirster") >>) @@
  ("Death's Dance" :>
      << Num("AD", 6000),
         Num("Ability Haste", 1500),
         Num("Armor", 5000),
         Num("DamageReduction", 30),
         Str("name", "Death's Dance") >>) @@
  ("Eclipse" :>
      << Num("AD", 6000),
         Num("Ability Haste", 1500),
         Num("MaxHealthDamage", 6),
         Tup("Shield", <<16000, 8000>>),
         Str("name", "Eclipse") >>) @@
  ("Essence Reaver" :>
      << Num("AD", 6000),
         Num("Ability Haste", 1500),
         Num("Crit Chance", 25),
         Num("ManaRestore", 1500),
         Str("name", "Essence Reaver") >>) @@
  ("Guinsoo's Rageblade" :>
      << Num("AD", 3000),
         Num("Ability Power", 3000),
         Num("Attack Speed", 25),
         Num("OnHitMagicDamage", 3000),
         Str("name", "Guinsoo's Rageblade") >>) @@
  ("Hubris" :>
      << Num("AD", 6000),
         Num("Ability Haste", 1000),
         Num("Lethality", 1800),
         Num("BonusADPerStack", 1500),
         Str("name", "Hubris") >>) @@
  ("Hullbreaker" :>
      << Num("AD", 4000),
         Num("Health", 50000),
         Num("MoveSpeed", 4),
         Tup("BonusArmorMR", <<7000, 13000>>),
         Str("name", "Hullbreaker") >>) @@
  ("Immortal Shieldbow" :>
      << Num("AD", 5500),
         Num("Crit Chance", 25),
         Tup("Shield", <<40000, 70000>>),
         Num("Lifesteal", 7),
         Str("name", "Immortal Shieldbow") >>) @@
  ("Infinity Edge" :>
      << Num("AD", 7000),
         Num("Crit Chance", 25),
         Num("Crit Damage", 40),
         Str("name", "Infinity Edge") >>) @@
  ("Kraken Slayer" :>
      << Num("AD", 4500),
         Num("Attack Speed", 40),
         Num("MoveSpeed", 4),
         Tup("BonusPhysicalDamage", <<15000, 20000>>),
         Str("name", "Kraken Slayer") >>) @@
  ("Lord Dominik's Regards" :>
      << Num("AD", 3500),
         Num("ArmorPen", 40),
         Num("Crit Chance", 25),
         Str("name", "Lord Dominik's Regards") >>) @@
  ("Maw of Malmortius" :>
      << Num("AD", 6000),
         Num("Ability Haste", 1500),
         Num("MR", 4000),
         Tup("Shield", <<20000, 15000>>),
         Num("Omnivamp", 10),
         Str("name", "Maw of Malmortius") >>) @@
  ("Mercurial Scimitar" :>
      << Num("AD", 4000),
         Num("MR", 4000),
         Num("Lifesteal", 10),
         Str("name", "Mercurial Scimitar") >>) @@
  ("Mortal Reminder" :>
      << Num("AD", 3500),
         Num("Armor Pen", 35),
         Num("Crit Chance", 25),
         Bool("GrievousWounds", TRUE),
         Str("name", "Mortal Reminder") >>) @@
  ("Nashor's Tooth" :>
      << Num("Ability Power", 8000),
         Num("Ability Haste", 1500),
         Num("Attack Speed", 50),
         Num("OnHitMagicDamage", 1500),
         Str("name", "Nashor's Tooth") >>) @@
  ("Navori Flickerblade" :>
      << Num("Attack Speed", 40),
         Num("Crit Chance", 25),
         Num("MoveSpeed", 4),
         Num("CooldownReduction", 15),
         Str("name", "Navori Flickerblade") >>) @@
  ("Opportunity" :>
      << Num("AD", 5500),
         Num("Lethality", 1500),
         Tup("MoveSpeedOutOfCombat", <<1100, 700>>),
         Str("name", "Opportunity") >>) @@
  ("Phantom Dancer" :>
      << Num("Attack Speed", 60),
         Num("Crit Chance", 25),
         Num("MoveSpeed", 8),
         Str("name", "Phantom Dancer") >>) @@
  ("Rapid Firecannon" :>
      << Num("Attack Speed", 35),
         Num("Crit Chance", 25),
         Num("MoveSpeed", 4),
         Str("name", "Rapid Firecannon") >>) @@
  ("Ravenous Hydra" :>
      << Num("AD", 6500),
         Num("Ability Haste", 1500),
         Num("Lifesteal", 12),
         Num("Cleave", 40),
         Str("name", "Ravenous Hydra") >>) @@
  ("Runaan's Hurricane" :>
      << Num("Attack Speed", 40),
         Num("Crit Chance", 25),
         Num("MoveSpeed", 4),
         Str("name", "Runaan's Hurricane") >>) @@
  ("Serpent's Fang" :>
      << Num("AD", 5500),
         Num("Lethality", 1500),
         Num("ShieldReduction", 50),
         Str("name", "Serpent's Fang") >>) @@
  ("Serylda's Grudge" :>
      << Num("AD", 4500),
         Num("Ability Haste", 2000),
         Num("ArmorPen", 30),
         Num("Slow", 30),
         Str("name", "Serylda's Grudge") >>) @@
  ("Statikk Shiv" :>
      << Num("AD", 4500),
         Num("Attack Speed", 30),
         Num("MoveSpeed", 4),
         Num("MagicDamage", 6000),
         Str("name", "Statikk Shiv") >>) @@
  ("Sterak's Gage" :>
      << Num("Health", 40000),
         Num("Tenacity", 20),
         Num("BonusAD", 45),
         Str("name", "Sterak's Gage") >>) @@
  ("Sundered Sky" :>
      << Num("AD", 4000),
         Num("Ability Haste", 1000),
         Num("Health", 40000),
         Num("CritDamage", 175),
         Num("HealMissingHealth", 6),
         Str("name", "Sundered Sky") >>) @@
  ("Terminus" :>
      << Num("AD", 3000),
         Num("Attack Speed", 35),
         Num("OnHitMagicDamage", 3000),
         Tup("ArmorMRPerStack", <<600, 700, 800>>),
         Num("ArmorPenMagicPenPerStack", 10),
         Str("name", "Terminus") >>) @@
  ("The Collector" :>
      << Num("AD", 5000),
         Num("Lethality", 1000),
         Num("Crit Chance", 25),
         Num("Execute", 5),
         Str("name", "The Collector") >>) @@
  ("Trinity Force" :>
      << Num("AD", 3600),
         Num("Ability Haste", 1500),
         Num("Attack Speed", 30),
         Num("Health", 33300),
         Num("SpellbladeDamage", 200),
         Str("name", "Trinity Force") >>) @@
  ("Voltaic Cyclosword" :>
      << Num("AD", 5500),
         Num("Ability Haste", 1000),
         Num("Lethality", 1800),
         Num("Slow", 99),
         Num("BonusPhysicalDamage", 10000),
         Str("name", "Voltaic Cyclosword") >>) @@
  ("Wit's End" :>
      << Num("MR", 4500),
         Num("Attack Speed", 50),
         Num("Tenacity", 20),
         Num("OnHitMagicDamage", 4500),
         Str("name", "Wit's End") >>) @@
  ("Youmuu's Ghostblade" :>
      << Num("AD", 5500),
         Num("Lethality", 1800),
         Tup("MoveSpeedOutOfCombat", <<2000, 1000>>),
         Str("name", "Youmuu's Ghostblade") >>)

ItemNameSet == {ItemKeys[i] : i \in 1..Len(ItemKeys)}

(***************************************************************************)
(* ITEM_CONSTRAINTS, in the dict's order.                                  *)
(***************************************************************************)
ITEM_CONSTRAINTS ==
  << [name  |-> "last_whisper",
      items |-> <<"Lord Dominik's Regards", "Serylda's Grudge", "Mortal Reminder">>,
      max   |-> 1],
     [name  |-> "lifeline",
      items |-> <<"Immortal Shieldbow", "Maw of Malmortius", "Sterak's Gage">>,
      max   |-> 1] >>

InList(x, lst) == \E i \in 1..Len(lst) : lst[i] = x

\* sum(1 for item in combo if item in constraint_group["items"])
RECURSIVE CountMembers(_, _)
CountMembers(combo, items) ==
    IF combo = <<>> THEN 0
    ELSE (IF InList(Head(combo), items) THEN 1 ELSE 0) + CountMembers(Tail(combo), items)

\* Comparisons that draw the line of is_valid_build one too low, one too high.
ReachesMax(count, max) == count >= max
ExceedsMaxByTwo(count, max) == count > max + 1

\* The comparison of is_valid_build: True when the group rejects the combo.
ExceedsMax(count, max) == count > max

\* The loop of is_valid_build over the groups still to be looked at.
RECURSIVE ValidFrom(_, _)
ValidFrom(combo, groups) ==
    IF groups = <<>> THEN TRUE
    ELSE IF ExceedsMax(CountMembers(combo, Head(groups).items), Head(groups).max)
         THEN FALSE
         ELSE ValidFrom(combo, Tail(groups))

is_valid_build(combo) == ValidFrom(combo, ITEM_CONSTRAINTS)

(***************************************************************************)
(* apply_physical_mitigation.  enemy_armor and lethality in whole points,  *)
(* armor_pen in hundredths; the armor after penetration is kept in         *)
(* hundredths of a point and the result is the exact fraction              *)
(* damage * multiplier = num / den.                                        *)
(***************************************************************************)
\* lethality * (0.6 + 0.4)
FlatPen(lethality) == lethality

\* max(0, enemy_armor - flat_pen): armor after the flat penetration.
ArmorAfterFlat(enemy_armor, lethality) == Max(0, enemy_armor - FlatPen(lethality))

\* A penetration that takes the percentage first and the lethality after.
FinalArmorPercentFirst(enemy_armor, armor_pen, lethality) ==
    Max(0, Max(0, enemy_armor * (100 - armor_pen)) - FlatPen(lethality) * 100)

\* max(0, armor_after_flat * (1 - armor_pen)), in hundredths of a point.
FinalArmor(enemy_armor, armor_pen, lethality) ==
    Max(0, ArmorAfterFlat(enemy_armor, lethality) * (100 - armor_pen))

apply_physical_mitigation(damage, enemy_armor, armor_pen, lethality) ==
    LET final_armor == FinalArmor(enemy_armor, armor_pen, lethality)
    IN  IF final_armor >= 0
        THEN [num |-> damage * 10000, den |-> 10000 + final_armor]
        ELSE [num |-> damage * (2 * (10000 - final_armor) - 10000),
              den |-> 10000 - final_armor]

(***************************************************************************)
(* ApheliosSimulator._calculate_base_stats.  A stats dict is a function    *)
(* from its keys to hundredths.                                            *)
(***************************************************************************)
BaseStats ==
    [k \in {"AD", "AS", "Crit", "CritDmg", "Lethality", "ArmorPen", "MagicPen",
            "OnHit", "LS", "Omnivamp", "BonusAD", "AbilityHaste", "Bonus Range",
            "Health", "Armor", "MR", "Mana", "MoveSpeed"} |->
        CASE k = "AD"        -> BASE_AD_LEVEL18
          [] k = "AS"        -> BASE_AS
          [] k = "CritDmg"   -> DEFAULT_CRIT_DAMAGE
          [] k = "Health"    -> BASE_HEALTH
          [] k = "Armor"     -> BASE_ARMOR
          [] k = "MR"        -> BASE_MR
          [] k = "Mana"      -> BASE_MANA
          [] k = "MoveSpeed" -> BASE_MOVE_SPEED
          [] OTHER           -> 0]

\* stats.get(stat, 0.0)
Get(stats, s) == IF s \in DOMAIN stats THEN stats[s] ELSE 0

\* stats[stat] = v
Put(stats, s, v) == [k \in DOMAIN stats \cup {s} |-> IF k = s THEN v ELSE stats[k]]

\* sum(float(v) for v in value) / len(value); every tuple of the catalog
\* has a mean that is a whole number of hundredths.
TupleMean(t) == SumSeq(t) \div Len(t)

\* isinstance(value, (int, float)): bool is a subclass of int.
IsIntOrFloat(e) == e.kind \in {"float", "bool"}

\* The branch "if stat in [ArmorPen, Armor Pen]": it ends without a continue.
PickHighestArmorPen(stats, e) == Put(stats, "ArmorPen", Max(stats["ArmorPen"], e.val))

\* The type dispatch that closes the loop body (lines 352-362).
AddByType(stats, e) ==
    IF e.kind = "tuple" THEN Put(stats, e.stat, Get(stats, e.stat) + TupleMean(e.tup))
    ELSE IF IsIntOrFloat(e) THEN Put(stats, e.stat, Get(stats, e.stat) + e.val)
    ELSE stats   \* a bool is skipped, any other type is warned about and skipped

\* One pass of the inner loop: acc is [stats, has_infinity_edge, bonus_ad].
StatStep(acc, e) ==
    IF e.stat = "name"
    THEN [acc EXCEPT !.has_infinity_edge = @ \/ (e.str = "Infinity Edge")]
    ELSE IF e.stat = "Crit Chance"
    THEN [acc EXCEPT !.stats = Put(@, "Crit", @["Crit"] + e.val)]
    ELSE IF e.stat = "AD"
    THEN [acc EXCEPT !.bonus_ad = @ + e.val]
    ELSE LET s1 == IF e.stat \in {"ArmorPen", "Armor Pen"}
                   THEN PickHighestArmorPen(acc.stats, e)
                   ELSE acc.stats
         IN  IF e.stat = "Lethality"
             THEN [acc EXCEPT !.stats = Put(s1, "Lethality", s1["Lethality"] + e.val)]
             ELSE [acc EXCEPT !.stats = AddByType(s1, e)]

RECURSIVE FoldEntries(_, _)
FoldEntries(acc, entries) ==
    IF entries = <<>> THEN acc
    ELSE FoldEntries(StatStep(acc, Head(entries)), Tail(entries))

RECURSIVE FoldItems(_, _)
FoldItems(acc, item_stats) ==
    IF item_stats = <<>> THEN acc
    ELSE FoldItems(FoldEntries(acc, Head(item_stats)), Tail(item_stats))

\* Lines 364-373: bonus AD, the passive AD, the crit cap, the Infinity Edge rule.
Finalize(acc) ==
    LET s1 == Put(acc.stats, "BonusAD", acc.bonus_ad)
        s2 == Put(s1, "AD", s1["AD"] + acc.bonus_ad + PASSIVE_AD)
        s3 == Put(s2, "Crit", Min(s2["Crit"], 100))
    IN  IF acc.has_infinity_edge /\ s3["Crit"] >= 60
        THEN Put(s3, "CritDmg", s3["CritDmg"] + 40)
        ELSE s3

\* The body of _calculate_base_stats: it folds self.item_stats, whatever
\* items_tuple it was called with.
calculate_base_stats(self_item_stats, items_tuple) ==
    Finalize(FoldItems([stats |-> BaseStats, has_infinity_edge |-> FALSE, bonus_ad |-> 0],
                       self_item_stats))

\* [ITEMS[item] for item in items if item in ITEMS]
RECURSIVE ItemStatsOf(_)
ItemStatsOf(items) ==
    IF items = <<>> THEN <<>>
    ELSE (IF Head(items) \in DOMAIN ITEMS THEN <<ITEMS[Head(items)]>> ELSE <<>>)
         \o ItemStatsOf(Tail(items))

(***************************************************************************)
(* functools.lru_cache(maxsize=128) around the method: the key is the      *)
(* argument tuple (self, items_tuple).  A cache entry is                   *)
(* [self, items_tuple, value]; the sequence runs from the least to the     *)
(* most recently used.                                                     *)
(***************************************************************************)
CacheKey(self, items_tuple) == <<self, items_tuple>>

CacheIndex(c, key) ==
    IF \E i \in 1..Len(c) : CacheKey(c[i].self, c[i].items_tuple) = key
    THEN CHOOSE i \in 1..Len(c) : CacheKey(c[i].self, c[i].items_tuple) = key
    ELSE 0

RemoveAt(s, i) == SubSeq(s, 1, i - 1) \o SubSeq(s, i + 1, Len(s))

\* One call through the cache: [value, cache, hit].
CachedCall(c, self, self_item_stats, items_tuple) ==
    LET i == CacheIndex(c, CacheKey(self, items_tuple))
    IN  IF i # 0
        THEN [value |-> c[i].value, cache |-> RemoveAt(c, i) \o <<c[i]>>, hit |-> TRUE]
        ELSE LET v   == calculate_base_stats(self_item_stats, items_tuple)
                 ent == [self |-> self, items_tuple |-> items_tuple, value |-> v]
                 c1  == c \o <<ent>>
             IN  [value |-> v,
                  cache |-> IF Len(c1) > CACHE_MAXSIZE THEN Tail(c1) ELSE c1,
                  hit   |-> FALSE]

(***************************************************************************)
(* The combat simulator.  Simulated time is counted in ticks of 1/656 s:   *)
(* the attack speed min(3, BASE_AS * (1 + stats[AS])) is 0.64 * 1.64 =     *)
(* 1.0496 attacks per second for every build (no item writes the AS key),  *)
(* so one attack takes 1/1.0496 s = 625/656 s, and every other delay of    *)
(* the simulator is a whole number of ticks.                               *)
(***************************************************************************)
TicksPerSecond == (BASE_AS * (100 + BASE_AS)) \div 16

ABILITY_CAST_TIME == TicksPerSecond \div 2     \* 0.5 s
ABILITY_COOLDOWN  == 3 * TicksPerSecond        \* 3.0 s
ASSEMBLY_TIME     == TicksPerSecond            \* 1.0 s, rotate_weapon
ROTATION_LOCKOUT  == (3 * TicksPerSecond) \div 2   \* 1.5 s, rotate_weapon
CHAKRAM_LIFETIME  == 5 * TicksPerSecond        \* 5.0 s, simulate_ability

FULL_AMMO      == 50
MAX_STACKS     == 20
STACKS_PER_HIT == 3
ABILITY_AMMO   == 10
MOONLIGHT_GATE == 10

WeaponOrder == <<"Calibrum", "Severum", "Gravitum", "Infernum", "Crescendum">>
WeaponNames == {WeaponOrder[i] : i \in 1..Len(WeaponOrder)}

\* WEAPONS[w].moonlight: the resource pool size descriptor, 50 for every weapon.
Moonlight(w) == 50

\* A clock that advances by a quarter of the attack time.
AttackTimeQuarter(stats) ==
    ((TicksPerSecond * 10000) \div Min(30000, BASE_AS * (100 + Get(stats, "AS")))) \div 4

\* The attack speed of calculate_dps in 1/10000 attacks per second, and the
\* time one attack takes, in ticks.
AttackSpeed(stats) == Min(30000, BASE_AS * (100 + Get(stats, "AS")))
AttackTime(stats)  == (TicksPerSecond * 10000) \div AttackSpeed(stats)

\* The simulator after __init__, stats aside.
NewSim ==
    [weapon_queue     |-> WeaponOrder,
     main_hand        |-> WeaponOrder[1],
     off_hand         |-> WeaponOrder[2],
     time             |-> 0,
     ability_cooldown |-> 0,
     weapon_ammo      |-> [w \in WeaponNames |-> FULL_AMMO],
     chakram_stacks   |-> 0,
     active_chakrams  |-> {},
     AS               |-> Get(BaseStats, "AS"),
     LS               |-> 0]

\* self.stats as the combat methods see it: the snapshot of a simulator
\* without items, its AS and LS entries taken from the simulator.
StatsOf(s) == Put(BaseStats, "AS", s.AS)

\* WEAPONS[w].base_damage_mod, in hundredths: the basic-attack coefficient
\* and the ability coefficient.
BaseDamageMod(w) ==
    CASE w = "Calibrum"   -> [attack |-> 100, ability |-> 20]
      [] w = "Severum"    -> [attack |-> 90,  ability |-> 0]
      [] w = "Gravitum"   -> [attack |-> 110, ability |-> 0]
      [] w = "Infernum"   -> [attack |-> 85,  ability |-> 15]
      [] w = "Crescendum" -> [attack |-> 50,  ability |-> 2]

\* Lines 423-430: what the on-hit branch of weapon w adds to the damage of
\* an attack, in hundredths of total_ad.
OnHitBonus(w) ==
    CASE w = "Calibrum" -> 15
      [] w = "Infernum" -> 75
      [] OTHER -> 0

\* Lines 407-430: the damage of an attack made with w in the main hand, in
\* hundredths of total_ad, before mitigation.  The snapshot of a simulator
\* without items has Crit 0.0, so random.random() < stats["Crit"] is false.
AttackDamage(w) == BaseDamageMod(w).attack + OnHitBonus(w)

\* Line 433: total_ad * (0.1385 * self.chakram_stacks), the value assigned
\* to base_damage when Crescendum is in the main hand, in 1/10000 of total_ad.
StackBonus(stacks) == 1385 * stacks

\* Lines 407-446: what an attack made with w in the main hand and the given
\* chakram stacks returns, in hundredths of total_ad, before mitigation.
\* Line 433 assigns the stack bonus to base_damage after damage has been
\* computed from it (lines 414-421); line 439 passes damage on.
AttackReturn(w, stacks) ==
    LET damage      == AttackDamage(w)
        base_damage == IF w = "Crescendum" THEN StackBonus(stacks) ELSE 10000
    IN  damage

\* Line 427: damage * 0.03 with the damage before the on-hit bonus, in
\* 1/10000 of total_ad.
LifestealGain(w) == BaseDamageMod(w).attack * 3

\* int(self.chakram_stacks * 0.7)
RetainStacks(stacks) == (stacks * 7) \div 10

\* A rotation that swaps the two front weapons of the queue.
RotateWeaponSwapFront(s) ==
    LET t     == s.time + ASSEMBLY_TIME
        queue == <<s.weapon_queue[2], s.weapon_queue[1]>> \o Tail(Tail(s.weapon_queue))
    IN  [s EXCEPT !.time = t,
                  !.ability_cooldown = Max(s.ability_cooldown, t + ROTATION_LOCKOUT),
                  !.weapon_queue = queue,
                  !.main_hand = queue[1],
                  !.off_hand = queue[2]]

rotate_weapon(s) ==
    LET t         == s.time + ASSEMBLY_TIME
        exhausted == Head(s.weapon_queue)
        queue     == Append(Tail(s.weapon_queue), exhausted)
    IN  [s EXCEPT !.time = t,
                  !.ability_cooldown = Max(s.ability_cooldown, t + ROTATION_LOCKOUT),
                  !.weapon_queue = queue,
                  !.main_hand = queue[1],
                  !.off_hand = queue[2],
                  !.chakram_stacks = IF exhausted = "Crescendum"
                                     THEN RetainStacks(s.chakram_stacks)
                                     ELSE s.chakram_stacks]

\* A use_ammo that rotates only once the ammo has gone below 0.
UseAmmoRotateBelowZero(s, amount) ==
    LET s1 == [s EXCEPT !.weapon_ammo[s.main_hand] = @ - amount]
    IN  IF s1.weapon_ammo[s1.main_hand] < 0 THEN rotate_weapon(s1) ELSE s1

use_ammo(s, amount) ==
    LET s1 == [s EXCEPT !.weapon_ammo[s.main_hand] = @ - amount]
    IN  IF s1.weapon_ammo[s1.main_hand] <= 0 THEN rotate_weapon(s1) ELSE s1

\* The opening of simulate_attack and simulate_ability: rotate off an empty weapon.
RotateIfEmpty(s) == IF s.weapon_ammo[s.main_hand] <= 0 THEN rotate_weapon(s) ELSE s

\* Lines 432-437: the chakram stacks after an attack; gain is the outcome
\* of random.random() < 0.65.
ConsumeStacks(stacks) == Max(0, stacks - STACKS_PER_HIT)

\* A stack gain that forgets the cap.
GainStackUncapped(stacks) == stacks + 1

GainStack(stacks) == Min(MAX_STACKS, stacks + 1)

AttackStacks(s, gain) ==
    IF s.main_hand = "Crescendum" THEN ConsumeStacks(s.chakram_stacks)
    ELSE IF s.off_hand = "Crescendum" /\ gain THEN GainStack(s.chakram_stacks)
    ELSE s.chakram_stacks

\* simulate_attack, as far as it changes the simulator: the ammo, the
\* rotation, stats["LS"] (line 427) and the chakram stacks.
simulate_attack(s, gain) ==
    LET s1 == use_ammo(RotateIfEmpty(s), 1)
    IN  [s1 EXCEPT !.chakram_stacks = AttackStacks(s1, gain),
                   !.LS = IF s1.main_hand = "Severum"
                          THEN @ + LifestealGain(s1.main_hand)
                          ELSE @]

\* What one call of simulate_attack on s did: the weapon whose ammo it took
\* (the main hand after the opening rotation), the weapon whose coefficient
\* and on-hit branch it read (the main hand after use_ammo), and the damage
\* it returned before mitigation, in hundredths of total_ad.
AttackTick(s) ==
    LET s0 == RotateIfEmpty(s)
        s1 == use_ammo(s0, 1)
    IN  [ammo_from   |-> s0.main_hand,
         modifier    |-> BaseDamageMod(s1.main_hand).attack,
         on_hit      |-> OnHitBonus(s1.main_hand),
         damage      |-> AttackReturn(s1.main_hand, s1.chakram_stacks)]

\* len([t for t in self.active_chakrams if t > self.time])
CountActive(chakrams, time) == Cardinality({t \in chakrams : t > time})

\* Lines 454-470: the damage of an ability cast with w in the main hand, in
\* 1/10000 of total_ad, before mitigation: the ability coefficient, times
\* (1 + execute) for Calibrum, (1 + lifesteal_boost) for Severum,
\* (1 + splash) * 1.25 for Infernum.
AbilityDamage(w) ==
    CASE w = "Calibrum" -> BaseDamageMod(w).ability * 110
      [] w = "Severum"  -> BaseDamageMod(w).ability * 125
      [] w = "Infernum" -> (BaseDamageMod(w).ability * 140 * 125) \div 100
      [] OTHER          -> BaseDamageMod(w).ability * 100

\* simulate_ability, as far as it changes the simulator.  Line 466 adds
\* raw_ability_damage * 0.03 to stats["LS"] for Severum, whose ability
\* coefficient is 0.0.
simulate_ability(s) ==
    LET s1 == use_ammo(RotateIfEmpty(s), ABILITY_AMMO)
        ch == IF s1.main_hand = "Crescendum"
              THEN s1.active_chakrams \cup {s1.time + CHAKRAM_LIFETIME}
              ELSE s1.active_chakrams
    IN  [s1 EXCEPT !.active_chakrams = ch,
                   !.chakram_stacks = CountActive(ch, s1.time),
                   !.LS = IF s1.main_hand = "Severum"
                          THEN @ + (AbilityDamage(s1.main_hand) * 3) \div 100
                          ELSE @]

\* The damage one call of simulate_ability on s returns before mitigation.
AbilityCast(s) == AbilityDamage(use_ammo(RotateIfEmpty(s), ABILITY_AMMO).main_hand)

\* The gate of calculate_dps in front of an ability cast (line 391).
AbilityReady(s) ==
    /\ s.time - s.ability_cooldown >= ABILITY_COOLDOWN
    /\ Moonlight(s.main_hand) >= MOONLIGHT_GATE

(***************************************************************************)
(* The build evaluator's score.  WEAPON_DAMAGE_FACTORS in tenths,          *)
(* WEAPON_SYNERGIES multipliers in hundredths.                             *)
(***************************************************************************)
WEAPON_DAMAGE_FACTORS ==
    [w \in WeaponNames |->
        CASE w = "Calibrum" ->
               ("AD" :> 30 @@ "Lethality" :> 25 @@ "Crit Chance" :> 20 @@ "Bonus Range" :> 15)
          [] w = "Severum" ->
               ("Attack Speed" :> 30 @@ "AD" :> 20 @@ "Lifesteal" :> 25 @@ "Omnivamp" :> 15)
          [] w = "Gravitum" ->
               ("Armor Pen" :> 30 @@ "AD" :> 20 @@ "Slow" :> 20)
          [] w = "Infernum" ->
               ("Attack Speed" :> 30 @@ "AD" :> 25 @@ "Crit Chance" :> 20 @@ "Magic Damage" :> 15)
          [] w = "Crescendum" ->
               ("Attack Speed" :> 40 @@ "OnHit" :> 30 @@ "AD" :> 20 @@ "Armor" :> 10 @@ "MR" :> 10)]

WEAPON_SYNERGIES ==
    (<<"Calibrum", "Severum">> :> 115) @@ (<<"Calibrum", "Gravitum">> :> 120) @@
    (<<"Calibrum", "Infernum">> :> 125) @@ (<<"Calibrum", "Crescendum">> :> 130) @@
    (<<"Severum", "Gravitum">> :> 120) @@ (<<"Severum", "Infernum">> :> 130) @@
    (<<"Severum", "Crescendum">> :> 135) @@ (<<"Gravitum", "Infernum">> :> 125) @@
    (<<"Gravitum", "Crescendum">> :> 120) @@ (<<"Infernum", "Crescendum">> :> 140)

\* WEAPON_DAMAGE_FACTORS[main].get(stat, 0.0) * 0.7 + ...[off].get(stat, 0.0) * 0.3,
\* in hundredths.
WeaponSuitability(main_weapon, off_weapon, stat) ==
    Get(WEAPON_DAMAGE_FACTORS[main_weapon], stat) * 7
      + Get(WEAPON_DAMAGE_FACTORS[off_weapon], stat) * 3

\* What one entry of an item adds to damage_synergy, in 1/10000.
EntrySynergy(main_weapon, off_weapon, e) ==
    IF e.stat = "name" THEN 0
    ELSE LET value == IF e.kind = "tuple" THEN TupleMean(e.tup) ELSE e.val
         IN  IF e.kind \in {"tuple", "float", "bool"}
             THEN value * WeaponSuitability(main_weapon, off_weapon, e.stat)
             ELSE 0

RECURSIVE ItemSynergy(_, _, _)
ItemSynergy(main_weapon, off_weapon, entries) ==
    IF entries = <<>> THEN 0
    ELSE EntrySynergy(main_weapon, off_weapon, Head(entries))
           + ItemSynergy(main_weapon, off_weapon, Tail(entries))

RECURSIVE ComboSynergy(_, _, _)
ComboSynergy(main_weapon, off_weapon, combo) ==
    IF combo = <<>> THEN 0
    ELSE ItemSynergy(main_weapon, off_weapon, ITEMS[Head(combo)])
           + ComboSynergy(main_weapon, off_weapon, Tail(combo))

\* The multiplier of the weapon pair, in hundredths, trying both orders.
SynergyMultiplier(main_weapon, off_weapon) ==
    IF <<main_weapon, off_weapon>> \in DOMAIN WEAPON_SYNERGIES
    THEN WEAPON_SYNERGIES[<<main_weapon, off_weapon>>]
    ELSE IF <<off_weapon, main_weapon>> \in DOMAIN WEAPON_SYNERGIES
    THEN WEAPON_SYNERGIES[<<off_weapon, main_weapon>>]
    ELSE 100

\* simulate_build: dps is what calculate_dps returned, in units of
\* 1/DpsUnit.  total_score = dps * 10 + damage_synergy * 5 is kept in units
\* of 1/200000, in which dps * 10 is the dps count itself; damage_synergy is
\* the 1/10000 sum times the multiplier in hundredths.  ITEMS[item] at line
\* 524 raises KeyError for a name that is no item; the except clause turns
\* every exception into the all-zero result.
DpsUnit == 2000000

\* A handler that lets the exception end in a result without the combo.
ZeroResultNoCombo(combo) == [combo |-> <<>>, total_score |-> 0, dps |-> 0]

ZeroResult(combo) == [combo |-> combo, total_score |-> 0, dps |-> 0]

RaisesKeyError(combo) == \E i \in 1..Len(combo) : combo[i] \notin ItemNameSet

simulate_build(combo, dps) ==
    LET main_weapon == NewSim.main_hand
        off_weapon  == NewSim.off_hand
        synergy     == ComboSynergy(main_weapon, off_weapon, combo)
                         * SynergyMultiplier(main_weapon, off_weapon)
    IN  IF RaisesKeyError(combo) THEN ZeroResult(combo)
        ELSE [combo |-> combo, total_score |-> dps + synergy, dps |-> dps]

\* simulate_build_chunk: dps_of[i] is the dps the i-th simulation came to.
simulate_build_chunk(builds, dps_of) ==
    [i \in 1..Len(builds) |-> simulate_build(builds[i], dps_of[i])]

(***************************************************************************)
(* The search driver.                                                      *)
(***************************************************************************)
COMBO_SIZE == 5

\* itertools.combinations(keys, r): the r-subsequences in lexicographic order
\* of their positions.
RECURSIVE Combinations(_, _)
Combinations(keys, r) ==
    IF r = 0 THEN << <<>> >>
    ELSE IF Len(keys) < r THEN <<>>
    ELSE LET with == Combinations(Tail(keys), r - 1)
         IN  [i \in 1..Len(with) |-> <<Head(keys)>> \o with[i]]
               \o Combinations(Tail(keys), r)

\* [combo for combo in itertools.combinations(ITEMS.keys(), 5) if is_valid_build(combo)]
ItemCombos(keys) == SelectSeq(Combinations(keys, COMBO_SIZE), is_valid_build)

\* A slice that stops one element early.
ChunkSliceShort(lst, i, size) == SubSeq(lst, i + 1, Min(i + size, Len(lst)) - 1)

\* lst[i:i+chunk_size], i counted from 0.
ChunkSlice(lst, i, size) == SubSeq(lst, i + 1, Min(i + size, Len(lst)))

\* list(chunkify(lst, chunk_size)): one slice for each i in range(0, len(lst), chunk_size).
chunkify(lst, size) ==
    [k \in 1..((Len(lst) + size - 1) \div size) |-> ChunkSlice(lst, (k - 1) * size, size)]

\* A sort key that leaves out the dps.
SortsBeforeScoreOnly(a, b) == a.total_score > b.total_score

\* The sort key (-x[1], -x[2]): a sorts strictly before b.
SortsBefore(a, b) ==
    \/ a.total_score > b.total_score
    \/ a.total_score = b.total_score /\ a.dps > b.dps

\* sorted(...) is stable: x goes behind every element that does not sort after it.
InsertSorted(sorted, x) ==
    LET later == {i \in 1..Len(sorted) : SortsBefore(x, sorted[i])}
        at    == IF later = {} THEN Len(sorted) + 1
                 ELSE CHOOSE i \in later : \A j \in later : i <= j
    IN  SubSeq(sorted, 1, at - 1) \o <<x>> \o SubSeq(sorted, at, Len(sorted))

RECURSIVE SortFrom(_, _)
SortFrom(sorted, rest) ==
    IF rest = <<>> THEN sorted
    ELSE SortFrom(InsertSorted(sorted, Head(rest)), Tail(rest))

\* sorted(all_results, key=lambda x: (-x[1], -x[2]))
SortedResults(results) == SortFrom(<<>>, results)

(***************************************************************************)
(* SpecMit: one call of apply_physical_mitigation on arguments drawn from  *)
(* small sets that hold negative, zero and positive armor.                 *)
(***************************************************************************)
MitDamages     == {0, 1, 60, 100}
MitArmors      == {-200, -100, -50, -1, 0, 1, 50, 100, 250}
MitArmorPens   == {0, 30, 35, 40, 100, 110}
MitLethalities == {0, 10, 18, 36, 300}

ValidIdle == combo_arg = <<>> /\ valid_result = <<>>

ChunkIdle == chunk_builds = <<>> /\ chunk_results = <<>>

OptIdle ==
    /\ catalog = <<>> /\ chunk_size = 0 /\ futures = <<>> /\ pending = {}
    /\ all_results = <<>> /\ returned = <<>> /\ opt_pc = "idle"
    /\ ChunkIdle

DpsIdle == total_damage = 0 /\ dps_result = <<>>

SimIdle ==
    /\ sim = <<>> /\ calls = <<>> /\ pc = "idle" /\ duration = 0 /\ tick = <<>>
    /\ rotated_at = <<>>
    /\ DpsIdle

StatIdle == sims = <<>> /\ cache = <<>> /\ hits = 0 /\ misses = 0 /\ request = <<>>

MitInit ==
    /\ mitArgs \in [damage : MitDamages, enemy_armor : MitArmors,
                    armor_pen : MitArmorPens, lethality : MitLethalities]
    /\ mitResult = <<>>
    /\ StatIdle
    /\ SimIdle
    /\ ValidIdle
    /\ OptIdle

Mitigate ==
    /\ mitResult = <<>>
    /\ mitResult' = apply_physical_mitigation(mitArgs.damage, mitArgs.enemy_armor,
                                              mitArgs.armor_pen, mitArgs.lethality)
    /\ UNCHANGED <<mitArgs, statVars, simVars, validVars, optVars>>

MitNext == Mitigate

SpecMit == MitInit /\ [][MitNext]_vars

\* C1: for a target with negative armor and no penetration the call returns
\* damage * (2 - 100/(100 - armor)), that is damage * (100 - 2*armor)/(100 - armor);
\* for armor = -100 this is 1.5 * damage.
C1_NegativeArmorAmplifies ==
    (mitResult # <<>> /\ mitArgs.enemy_armor < 0 /\ mitArgs.armor_pen = 0
        /\ mitArgs.lethality = 0)
    => mitResult.num * (100 - mitArgs.enemy_armor)
         = mitResult.den * mitArgs.damage * (100 - 2 * mitArgs.enemy_armor)

(***************************************************************************)
(* SpecStats: simulators are constructed on item lists, and                *)
(* _calculate_base_stats is called again on an instance, in one process    *)
(* that shares the method's lru_cache.                                     *)
(***************************************************************************)
StatPool ==
    <<"Black Cleaver", "Bloodthirster", "Lord Dominik's Regards", "Mortal Reminder",
      "Serylda's Grudge">>

NoRepeat(s) == \A i, j \in 1..Len(s) : i # j => s[i] # s[j]

\* The item lists a simulator is constructed on: no item twice.
StatItemLists ==
    UNION {{s \in [1..n -> {StatPool[i] : i \in 1..Len(StatPool)}] : NoRepeat(s)}
           : n \in 0..MaxItems}

MitIdle == mitArgs = <<>> /\ mitResult = <<>>

StatInit ==
    /\ sims = <<>>
    /\ cache = <<>>
    /\ hits = 0
    /\ misses = 0
    /\ request = <<>>
    /\ MitIdle
    /\ SimIdle
    /\ ValidIdle
    /\ OptIdle

\* The call self._calculate_base_stats(items_tuple) and what it leaves behind.
CallThroughCache(self, self_item_stats, items_tuple, r) ==
    /\ cache' = r.cache
    /\ hits' = IF r.hit THEN hits + 1 ELSE hits
    /\ misses' = IF r.hit THEN misses ELSE misses + 1
    /\ request' = [self |-> self, items_tuple |-> items_tuple, value |-> r.value]

\* ApheliosSimulator(items): __init__ up to self.stats.
NewSimulator(items) ==
    /\ Len(sims) < MaxSims
    /\ hits + misses < MaxCalls
    /\ LET self       == Len(sims) + 1
           item_stats == ItemStatsOf(items)
           r          == CachedCall(cache, self, item_stats, items)
       IN  /\ sims' = Append(sims, [item_names |-> items, item_stats |-> item_stats,
                                    stats |-> r.value])
           /\ CallThroughCache(self, item_stats, items, r)
    /\ UNCHANGED <<mitVars, simVars, validVars, optVars>>

\* A later call sim._calculate_base_stats(items_tuple) on an existing instance.
RecallBaseStats(self, items_tuple) ==
    /\ self \in 1..Len(sims)
    /\ hits + misses < MaxCalls
    /\ LET r == CachedCall(cache, self, sims[self].item_stats, items_tuple)
       IN  CallThroughCache(self, sims[self].item_stats, items_tuple, r)
    /\ UNCHANGED <<sims, mitVars, simVars, validVars, optVars>>

StatNext ==
    \/ \E items \in StatItemLists : NewSimulator(items)
    \/ \E self \in 1..MaxSims, items_tuple \in StatItemLists :
          RecallBaseStats(self, items_tuple)

SpecStats == StatInit /\ [][StatNext]_vars

\* The percent armor penetration values the items of a list grant, under
\* either spelling of the key.
ArmorPenValues(item_stats) ==
    UNION {{item_stats[i][j].val :
               j \in {k \in 1..Len(item_stats[i]) :
                         item_stats[i][k].stat \in {"ArmorPen", "Armor Pen"}}}
           : i \in 1..Len(item_stats)}

SetMax(S) == IF S = {} THEN 0 ELSE CHOOSE x \in S : \A y \in S : y <= x

\* C2: the snapshot's ArmorPen is the maximum of the items' percent armor
\* penetration values (0 without any), never a sum.
C2_ArmorPenIsMax ==
    \A i \in 1..Len(sims) :
        sims[i].stats["ArmorPen"] = SetMax(ArmorPenValues(sims[i].item_stats))

\* Two item lists name the same combination: one is a permutation of the other.
SameCombination(a, b) ==
    /\ Len(a) = Len(b)
    /\ \A x \in {a[i] : i \in 1..Len(a)} \cup {b[i] : i \in 1..Len(b)} :
          Cardinality({i \in 1..Len(a) : a[i] = x})
            = Cardinality({i \in 1..Len(b) : b[i] = x})

\* C3: aggregation is order-independent: two simulators constructed on
\* permutations of the same item list hold snapshots with identical values.
C3_OrderIndependent ==
    \A i, j \in 1..Len(sims) :
        SameCombination(sims[i].item_names, sims[j].item_names)
        => sims[i].stats = sims[j].stats

\* C4: once the snapshot of a combination is cached, a later request for an
\* equivalent combination (any order, any instance) returns the cached
\* result and does not run the function body again.
C4_CachedByCombination ==
    [][\A k \in 1..Len(cache) :
          (hits' + misses' = hits + misses + 1
             /\ SameCombination(cache[k].items_tuple, request'.items_tuple))
          => (misses' = misses /\ request'.value = cache[k].value)]_vars

(***************************************************************************)
(* SpecSim: the combat methods called directly, in any order, on a fresh   *)
(* simulator.                                                              *)
(***************************************************************************)
\* self.time at the return of the last rotate_weapon call made between the
\* simulator states before and after, prev if none was made.  A call that
\* rotates (at most three times: lines 382, 403, 488) changes the queue, and
\* between the last rotation and after nothing writes self.time: line 491
\* is the only write to it in rotate_weapon, use_ammo, simulate_attack and
\* simulate_ability.
RotatedAt(prev, before, after) ==
    IF after.weapon_queue # before.weapon_queue THEN <<after.time>> ELSE prev

SimInit ==
    /\ sim = NewSim
    /\ calls = [attacks |-> 0, casts |-> 0, rotations |-> 0]
    /\ pc = "idle"
    /\ duration = 0
    /\ tick = <<>>
    /\ rotated_at = <<>>
    /\ DpsIdle
    /\ MitIdle
    /\ StatIdle
    /\ ValidIdle
    /\ OptIdle

CallAttack(gain) ==
    /\ calls.attacks < MaxAttacks
    /\ sim' = simulate_attack(sim, gain)
    /\ tick' = AttackTick(sim)
    /\ rotated_at' = RotatedAt(rotated_at, sim, sim')
    /\ calls' = [calls EXCEPT !.attacks = @ + 1]
    /\ UNCHANGED <<pc, duration, total_damage, dps_result, mitVars, statVars, validVars, optVars>>

CallAbility ==
    /\ calls.casts + calls.rotations < MaxOtherCalls
    /\ sim' = simulate_ability(sim)
    /\ rotated_at' = RotatedAt(rotated_at, sim, sim')
    /\ calls' = [calls EXCEPT !.casts = @ + 1]
    /\ UNCHANGED <<pc, duration, tick, total_damage, dps_result,
                   mitVars, statVars, validVars, optVars>>

CallRotate ==
    /\ calls.casts + calls.rotations < MaxOtherCalls
    /\ sim' = rotate_weapon(sim)
    /\ rotated_at' = RotatedAt(rotated_at, sim, sim')
    /\ calls' = [calls EXCEPT !.rotations = @ + 1]
    /\ UNCHANGED <<pc, duration, tick, total_damage, dps_result,
                   mitVars, statVars, validVars, optVars>>

SimNext ==
    \/ \E gain \in BOOLEAN : CallAttack(gain)
    \/ CallAbility
    \/ CallRotate

SpecSim == SimInit /\ [][SimNext]_vars

\* C5: the chakram stack counter stays within 0..20.
C5_StacksInRange == sim.chakram_stacks >= 0 /\ sim.chakram_stacks <= MAX_STACKS

\* C5 witness: attacks with Crescendum off-hand have filled the counter to
\* its cap, and a later attack with Crescendum main-hand has consumed from it.
C5_Witness ==
    /\ sim.main_hand = "Crescendum"
    /\ sim.weapon_ammo["Crescendum"] = FULL_AMMO - 1
    /\ sim.chakram_stacks = MAX_STACKS - STACKS_PER_HIT

\* The weapon that follows w in the fixed rotation order.
NextWeapon(w) ==
    LET i == CHOOSE k \in 1..Len(WeaponOrder) : WeaponOrder[k] = w
    IN  WeaponOrder[(i % Len(WeaponOrder)) + 1]

\* C7: no weapon's ammo ever increases; a consumption that brings a
\* weapon's ammo to 0 rotates to the next weapon of the queue in the same
\* step; and with attacks only, from full ammo, the main hand changes
\* exactly at every 50th attack.
C7_AmmoDepletesAndRotates ==
    [][/\ \A w \in WeaponNames : sim'.weapon_ammo[w] <= sim.weapon_ammo[w]
       /\ \A w \in WeaponNames :
             (sim.weapon_ammo[w] > 0 /\ sim'.weapon_ammo[w] <= 0)
             => /\ sim'.main_hand = NextWeapon(w)
                /\ sim'.weapon_queue[1] = NextWeapon(w)
                /\ sim'.weapon_queue[Len(WeaponOrder)] = w
       /\ (calls'.casts = 0 /\ calls'.rotations = 0
             /\ calls'.attacks < FULL_AMMO * Len(WeaponOrder))
          => sim'.main_hand = WeaponOrder[(calls'.attacks \div FULL_AMMO) + 1]]_vars

\* C7 witness: 50 attacks, no cast, no direct rotation: Calibrum is empty
\* and Severum is in the main hand.
C7_Witness ==
    /\ calls = [attacks |-> FULL_AMMO, casts |-> 0, rotations |-> 0]
    /\ sim.weapon_ammo["Calibrum"] = 0
    /\ sim.main_hand = "Severum"
    /\ sim.weapon_queue = <<"Severum", "Gravitum", "Infernum", "Crescendum", "Calibrum">>

(***************************************************************************)
(* SpecDps: calculate_dps(duration) on a fresh simulator.  One pass of     *)
(* the while loop is the attack (LoopAttack) followed by the ability gate  *)
(* (CastAbility or SkipAbility); DpsReturn is the code after the loop;     *)
(* LoopRaise is the pass that ends in the division by an attack speed of   *)
(* 0.  The simulator has the stats of a build without items, with          *)
(* stats["AS"] either as aggregated or set to -1.0.                        *)
(***************************************************************************)
Durations == {-1, 0, 1, 20, MaxDuration}

\* stats["AS"] of the simulator, in hundredths: the base value every build
\* has, and -1.0, with which BASE_AS * (1 + AS) is 0.
AttackSpeedStats == {Get(BaseStats, "AS"), 0 - 100}

\* A return without the duration test.
DpsValueUnguarded(total, d) ==
    IF d # 0 THEN [outcome |-> "return", num |-> total, den |-> d]
    ELSE [outcome |-> "ZeroDivisionError", num |-> 0, den |-> 1]

\* Line 399: total_damage / duration if duration > 0 else 0, as a fraction.
DpsValue(total, d) ==
    IF d > 0 THEN [outcome |-> "return", num |-> total, den |-> d]
    ELSE [outcome |-> "return", num |-> 0, den |-> 1]

DpsInit ==
    /\ \E as \in AttackSpeedStats : sim = [NewSim EXCEPT !.AS = as]
    /\ calls = [attacks |-> 0, casts |-> 0, rotations |-> 0]
    /\ pc = "loop"
    /\ duration \in {d * TicksPerSecond : d \in Durations}
    /\ tick = <<>>
    /\ rotated_at = <<>>
    /\ DpsIdle
    /\ MitIdle
    /\ StatIdle
    /\ ValidIdle
    /\ OptIdle

\* Lines 380-389: the loop test, the rotation off an empty weapon, the
\* attack, the clock advance.
LoopAttack(gain) ==
    /\ pc = "loop"
    /\ sim.time < duration
    /\ AttackSpeed(StatsOf(sim)) # 0
    /\ LET s0 == RotateIfEmpty(sim)
           s1 == simulate_attack(s0, gain)
       IN  /\ sim' = [s1 EXCEPT !.time = @ + AttackTime(StatsOf(sim))]
           /\ tick' = AttackTick(s0)
           /\ total_damage' = total_damage + AttackTick(s0).damage * 100
           /\ rotated_at' = RotatedAt(rotated_at, sim, s1)
    /\ calls' = [calls EXCEPT !.attacks = @ + 1]
    /\ pc' = "gate"
    /\ UNCHANGED <<duration, dps_result, mitVars, statVars, validVars, optVars>>

\* Lines 380-386 with an attack speed of 0: 1.0 / attack_speed raises
\* ZeroDivisionError, which nothing in calculate_dps catches.
LoopRaise ==
    /\ pc = "loop"
    /\ sim.time < duration
    /\ AttackSpeed(StatsOf(sim)) = 0
    /\ sim' = RotateIfEmpty(sim)
    /\ rotated_at' = RotatedAt(rotated_at, sim, sim')
    /\ dps_result' = <<[outcome |-> "ZeroDivisionError", num |-> 0, den |-> 1]>>
    /\ pc' = "raised"
    /\ UNCHANGED <<calls, duration, tick, total_damage, mitVars, statVars, validVars, optVars>>

\* Lines 391-394 with the gate open.
CastAbility ==
    /\ pc = "gate"
    /\ AbilityReady(sim)
    /\ LET s1 == simulate_ability(sim)
       IN  sim' = [s1 EXCEPT !.ability_cooldown = s1.time + ABILITY_CAST_TIME,
                             !.time = s1.time + ABILITY_CAST_TIME]
    /\ total_damage' = total_damage + AbilityCast(sim)
    /\ rotated_at' = RotatedAt(rotated_at, sim, simulate_ability(sim))
    /\ calls' = [calls EXCEPT !.casts = @ + 1]
    /\ pc' = "loop"
    /\ UNCHANGED <<duration, tick, dps_result, mitVars, statVars, validVars, optVars>>

\* Line 391 with the gate closed.
SkipAbility ==
    /\ pc = "gate"
    /\ ~AbilityReady(sim)
    /\ pc' = "loop"
    /\ UNCHANGED <<sim, calls, duration, tick, total_damage, dps_result, rotated_at,
                   mitVars, statVars, validVars, optVars>>

\* Lines 396-399: the trailing rotation when every weapon is empty.
DpsReturn ==
    /\ pc = "loop"
    /\ sim.time >= duration
    /\ sim' = IF \A w \in WeaponNames : sim.weapon_ammo[w] <= 0
              THEN rotate_weapon(sim)
              ELSE sim
    /\ rotated_at' = RotatedAt(rotated_at, sim, sim')
    /\ dps_result' = <<DpsValue(total_damage, duration)>>
    /\ pc' = "done"
    /\ UNCHANGED <<calls, duration, tick, total_damage, mitVars, statVars, validVars, optVars>>

DpsNext ==
    \/ \E gain \in BOOLEAN : LoopAttack(gain)
    \/ LoopRaise
    \/ CastAbility
    \/ SkipAbility
    \/ DpsReturn

SpecDps == DpsInit /\ [][DpsNext]_vars

\* C6: an ability is cast only when at least 3.0 s have passed since the
\* ability-ready timestamp and the main-hand weapon still holds at least 10
\* ammo; the cast takes 10 ammo from that weapon.
C6_CastNeedsCooldownAndAmmo ==
    [][calls'.casts = calls.casts + 1
       => /\ sim.time - sim.ability_cooldown >= ABILITY_COOLDOWN
          /\ sim.weapon_ammo[sim.main_hand] >= ABILITY_AMMO
          /\ sim'.weapon_ammo[sim.main_hand] = sim.weapon_ammo[sim.main_hand] - ABILITY_AMMO]_vars

(***************************************************************************)
(* SpecValid: one call of is_valid_build on a combo over the items of the  *)
(* two constraint groups and one unconstrained item.                       *)
(***************************************************************************)
ValidPool ==
    {"Lord Dominik's Regards", "Serylda's Grudge", "Mortal Reminder",
     "Immortal Shieldbow", "Maw of Malmortius", "Sterak's Gage", "Infinity Edge"}

ValidInit ==
    /\ combo_arg \in UNION {[1..n -> ValidPool] : n \in 0..MaxComboLen}
    /\ valid_result = <<>>
    /\ MitIdle
    /\ StatIdle
    /\ SimIdle
    /\ OptIdle

CheckBuild ==
    /\ valid_result = <<>>
    /\ valid_result' = <<is_valid_build(combo_arg)>>
    /\ UNCHANGED <<combo_arg, mitVars, statVars, simVars, optVars>>

ValidNext == CheckBuild

SpecValid == ValidInit /\ [][ValidNext]_vars

\* The combo members that belong to the item list of constraint group g.
MembersOf(combo, g) ==
    {i \in 1..Len(combo) : \E k \in 1..Len(g.items) : g.items[k] = combo[i]}

\* C8: is_valid_build(combo) is True exactly when, for every constraint
\* group, the number of combo members in the group's item list is at most
\* the group's max.
C8_ValidIffWithinMax ==
    valid_result # <<>>
    => (valid_result[1]
        <=> \A n \in 1..Len(ITEM_CONSTRAINTS) :
               Cardinality(MembersOf(combo_arg, ITEM_CONSTRAINTS[n]))
                 <= ITEM_CONSTRAINTS[n].max)

\* C8 witness: a combo with two items of one max-1 group has been rejected.
C8_Witness ==
    /\ valid_result = <<FALSE>>
    /\ \E n \in 1..Len(ITEM_CONSTRAINTS) :
          /\ ITEM_CONSTRAINTS[n].max = 1
          /\ Cardinality(MembersOf(combo_arg, ITEM_CONSTRAINTS[n])) = 2
          /\ \A m \in 1..Len(ITEM_CONSTRAINTS) :
                m # n => MembersOf(combo_arg, ITEM_CONSTRAINTS[m]) = {}

(***************************************************************************)
(* SpecOpt: one run of optimize_aphelios_build.  The catalog is a part of  *)
(* ITEMS, its keys in the dict's order; Submit is the code up to the       *)
(* executor's submits, Complete(f, ..) is future f completing and being    *)
(* collected by the as_completed loop, in any order; the pass that         *)
(* collects the last future goes on to the sort and the return.            *)
(***************************************************************************)
SearchPool ==
    <<"Black Cleaver", "Immortal Shieldbow", "Infinity Edge", "Kraken Slayer",
      "Lord Dominik's Regards", "Maw of Malmortius", "Mortal Reminder",
      "Serylda's Grudge">>

\* The items of SearchPool at the positions in S, in the pool's order.
RECURSIVE PickFrom(_, _)
PickFrom(n, S) ==
    IF n = 0 THEN <<>>
    ELSE IF n \in S THEN Append(PickFrom(n - 1, S), SearchPool[n])
    ELSE PickFrom(n - 1, S)

Catalogs ==
    {PickFrom(Len(SearchPool), S) :
        S \in {T \in SUBSET (1..Len(SearchPool)) : Cardinality(T) >= COMBO_SIZE}}

\* The dps values the simulations come to: whole numbers, and the one value
\* that makes up for the score Serylda's Grudge has over Lord Dominik's
\* Regards, so that two results can tie on the score with different dps.
ItemScore(item) ==
    ItemSynergy(NewSim.main_hand, NewSim.off_hand, ITEMS[item])
      * SynergyMultiplier(NewSim.main_hand, NewSim.off_hand)

TieDps == ItemScore("Serylda's Grudge") - ItemScore("Lord Dominik's Regards")

DpsValues == {k * DpsUnit : k \in 0..MaxDps} \cup {TieDps}

OptInit ==
    /\ catalog \in Catalogs
    /\ chunk_size \in 1..MaxChunkSize
    /\ Len(chunkify(ItemCombos(catalog), chunk_size)) <= MaxChunks
    /\ futures = <<>>
    /\ pending = {}
    /\ all_results = <<>>
    /\ returned = <<>>
    /\ opt_pc = "start"
    /\ ChunkIdle
    /\ MitIdle
    /\ StatIdle
    /\ SimIdle
    /\ ValidIdle

\* Lines 567-580; with no chunk at all the loop is empty and [] is returned.
Submit ==
    /\ opt_pc = "start"
    /\ LET chunks == chunkify(ItemCombos(catalog), chunk_size)
       IN  /\ futures' = chunks
           /\ pending' = 1..Len(chunks)
           /\ opt_pc' = IF chunks = <<>> THEN "done" ELSE "collect"
    /\ returned' = SortedResults(all_results)
    /\ UNCHANGED <<catalog, chunk_size, all_results, chunk_builds, chunk_results,
                   mitVars, statVars, simVars, validVars>>

\* Lines 581-584: future f completes and all_results takes its results.
Complete(f, dps_of) ==
    /\ opt_pc = "collect"
    /\ f \in pending
    /\ dps_of \in [1..Len(futures[f]) -> DpsValues]
    /\ LET results == all_results \o simulate_build_chunk(futures[f], dps_of)
       IN  /\ all_results' = results
           /\ pending' = pending \ {f}
           /\ IF pending = {f}
              THEN returned' = SortedResults(results) /\ opt_pc' = "done"
              ELSE UNCHANGED <<returned, opt_pc>>
    /\ UNCHANGED <<catalog, chunk_size, futures, chunk_builds, chunk_results,
                   mitVars, statVars, simVars, validVars>>

OptNext ==
    \/ Submit
    \/ \E f \in 1..MaxChunks :
          \E dps_of \in UNION {[1..n -> DpsValues] : n \in 1..MaxChunkSize} :
             Complete(f, dps_of)

SpecOpt == OptInit /\ [][OptNext]_vars

\* The legal 5-item combinations of the catalog: the sets of 5 catalog
\* positions whose items hold at most max items of every constraint group,
\* each written as the items in catalog order.
Legal(items) ==
    \A n \in 1..Len(ITEM_CONSTRAINTS) :
        Cardinality({x \in items : \E k \in 1..Len(ITEM_CONSTRAINTS[n].items) :
                                       ITEM_CONSTRAINTS[n].items[k] = x})
          <= ITEM_CONSTRAINTS[n].max

LegalSets ==
    {S \in SUBSET {catalog[i] : i \in 1..Len(catalog)} :
        Cardinality(S) = COMBO_SIZE /\ Legal(S)}

ItemsOf(combo) == {combo[i] : i \in 1..Len(combo)}

\* C9: the returned list holds exactly one result for every legal 5-item
\* combination of the catalog, and nothing else.
C9_OneResultPerLegalCombo ==
    opt_pc = "done"
    => /\ \A S \in LegalSets :
             Cardinality({i \in 1..Len(returned) : ItemsOf(returned[i].combo) = S}) = 1
       /\ \A i \in 1..Len(returned) : ItemsOf(returned[i].combo) \in LegalSets
       /\ Len(returned) = Cardinality(LegalSets)

\* C9 witness: a run split into several chunks that completed out of
\* submission order has returned its results.
C9_Witness ==
    /\ opt_pc = "done"
    /\ Len(futures) >= 2
    /\ Len(returned) >= 3
    /\ all_results[1].combo # futures[1][1]

\* C10: no combination holding two or more items of one max-1 constraint
\* group appears in the returned list.
C10_NoIllegalComboReturned ==
    \A i \in 1..Len(returned) :
        \A n \in 1..Len(ITEM_CONSTRAINTS) :
            ITEM_CONSTRAINTS[n].max = 1
            => Cardinality(MembersOf(returned[i].combo, ITEM_CONSTRAINTS[n])) < 2

\* C10 witness: the catalog holds two items of one group, so some of its
\* 5-item combinations are illegal, and a non-empty list has been returned.
C10_Witness ==
    /\ opt_pc = "done"
    /\ returned # <<>>
    /\ \E n \in 1..Len(ITEM_CONSTRAINTS) :
          Cardinality(MembersOf(catalog, ITEM_CONSTRAINTS[n])) >= 2


\* C11: the returned list is sorted: each result's score is at least the
\* next one's, and on equal scores its dps is at least the next one's.
C11_ReturnedSorted ==
    \A i \in 1..(Len(returned) - 1) :
        /\ returned[i].total_score >= returned[i + 1].total_score
        /\ returned[i].total_score = returned[i + 1].total_score
             => returned[i].dps >= returned[i + 1].dps

\* C11 witness: chunks completed in an order that left the collected
\* results unsorted, two of them tie on the score with different dps, and
\* the list has been returned.
C11_Witness ==
    /\ opt_pc = "done"
    /\ Len(futures) >= 2
    /\ \E i \in 1..(Len(all_results) - 1) : SortsBefore(all_results[i + 1], all_results[i])
    /\ \E i \in 1..(Len(returned) - 1) :
          /\ returned[i].total_score = returned[i + 1].total_score
          /\ returned[i].dps > returned[i + 1].dps

\* The collected results in the order their combinations were generated.
InGenerationOrder(results) ==
    LET combos == ItemCombos(catalog)
    IN  [i \in 1..Len(combos) |->
            results[CHOOSE j \in 1..Len(results) : results[j].combo = combos[i]]]

\* C12: the returned sequence depends only on the per-combination results,
\* not on the order in which the chunks completed: it is the sequence the
\* sort gives for the same results collected in generation order.
C12_OrderOnlyFromSort ==
    opt_pc = "done" => returned = SortedResults(InGenerationOrder(all_results))


(***************************************************************************)
(* SpecChunk: one call of simulate_build_chunk on a list of builds, some   *)
(* of which name an item that ITEMS does not hold, so that their           *)
(* evaluation raises inside simulate_build.                                *)
(***************************************************************************)
ChunkCombos ==
    {<<"Black Cleaver", "Infinity Edge">>, <<"Kraken Slayer">>,
     <<"Black Cleaver", "No Such Item">>, <<"No Such Item">>}

ChunkInit ==
    /\ chunk_builds \in UNION {[1..n -> ChunkCombos] : n \in 0..MaxBuilds}
    /\ chunk_results = <<>>
    /\ catalog = <<>> /\ chunk_size = 0 /\ futures = <<>> /\ pending = {}
    /\ all_results = <<>> /\ returned = <<>> /\ opt_pc = "idle"
    /\ MitIdle
    /\ StatIdle
    /\ SimIdle
    /\ ValidIdle

EvaluateChunk(dps_of) ==
    /\ chunk_results = <<>>
    /\ dps_of \in [1..Len(chunk_builds) -> DpsValues]
    /\ chunk_results' = <<simulate_build_chunk(chunk_builds, dps_of)>>
    /\ UNCHANGED <<catalog, chunk_size, futures, pending, all_results, returned, opt_pc,
                   chunk_builds, mitVars, statVars, simVars, validVars>>

ChunkNext ==
    \E dps_of \in UNION {[1..n -> DpsValues] : n \in 0..MaxBuilds} : EvaluateChunk(dps_of)

SpecChunk == ChunkInit /\ [][ChunkNext]_vars

\* The evaluation of the combo raises: it names something that is no item.
Fails(combo) == \E k \in 1..Len(combo) : combo[k] \notin DOMAIN ITEMS

\* C13: simulate_build_chunk returns exactly one result per input build, in
\* input order; a build whose evaluation raises yields the all-zero result
\* for its combo, and every other build of the chunk its evaluated score.
C13_FailureYieldsZeroResult ==
    chunk_results # <<>>
    => LET out == chunk_results[1]
       IN  /\ Len(out) = Len(chunk_builds)
           /\ \A i \in 1..Len(out) :
                 /\ out[i].combo = chunk_builds[i]
                 /\ Fails(chunk_builds[i])
                      => out[i].total_score = 0 /\ out[i].dps = 0
                 /\ ~Fails(chunk_builds[i])
                      => /\ out[i].dps \in DpsValues
                         /\ out[i].total_score > out[i].dps

\* C13 witness: a failing build stood in front of a good one, and the good
\* one was still evaluated.
C13_Witness ==
    /\ chunk_results # <<>>
    /\ Len(chunk_builds) = MaxBuilds
    /\ Fails(chunk_builds[1])
    /\ ~Fails(chunk_builds[2])
    /\ chunk_results[1][1].total_score = 0
    /\ chunk_results[1][2].total_score > 0


\* C14: calculate_dps with a duration <= 0 on a fresh simulator returns 0
\* without a division fault, makes no attack, cast or rotation, and leaves
\* the simulator as it was.
C14_NonPositiveDurationIsNoOp ==
    duration <= 0
    => /\ pc \in {"loop", "done"}
       /\ calls = [attacks |-> 0, casts |-> 0, rotations |-> 0]
       /\ sim = [NewSim EXCEPT !.AS = sim.AS]
       /\ tick = <<>>
       /\ total_damage = 0
       /\ pc = "done" => dps_result = <<[outcome |-> "return", num |-> 0, den |-> 1]>>

\* C14 witness: calculate_dps(0) has returned.
C14_Witness == pc = "done" /\ duration = 0 /\ dps_result # <<>>

\* C15: calculate_dps with a positive duration on a simulator whose attack
\* speed is 0 does not raise and returns a dps of 0.
C15_ZeroAttackSpeedGuarded ==
    (duration > 0 /\ AttackSpeed(StatsOf(sim)) = 0 /\ pc \notin {"loop", "gate"})
    => dps_result = <<[outcome |-> "return", num |-> 0, den |-> 1]>>

\* calculate_dps under the assumption that the interpreter keeps running it.
SpecDpsFair == SpecDps /\ WF_vars(DpsNext)

\* C16: calculate_dps terminates; simulated time never goes back and every
\* pass of the loop advances it; and the attacks made number at most the
\* duration divided by 1/3 s, rounded up.
C16_Terminates ==
    /\ <>(pc \in {"done", "raised"})
    /\ [](calls.attacks * TicksPerSecond < 3 * Max(duration, 0) + TicksPerSecond)
    /\ [][/\ sim'.time >= sim.time
          /\ calls'.attacks > calls.attacks => sim'.time > sim.time]_vars

\* C16 witness: a run over the longest duration has returned after more
\* attacks than one weapon holds ammo for.
C16_Witness ==
    /\ pc = "done"
    /\ duration = MaxDuration * TicksPerSecond
    /\ calls.attacks > FULL_AMMO
    /\ sim.time >= duration


\* The greatest common divisor, and a fraction in lowest terms.
RECURSIVE Gcd(_, _)
Gcd(a, b) == IF b = 0 THEN a ELSE Gcd(b, a % b)

LowestTerms(f) ==
    LET g == Gcd(f.num, f.den)
    IN  IF g = 0 THEN f ELSE [num |-> f.num \div g, den |-> f.den \div g]

\* The armor left after the lethality, floored at 0, has been taken off and
\* the percent penetration applied to the rest, in hundredths of a point.
ArmorLeft(a, p, l) ==
    LET rest == IF a > l THEN a - l ELSE 0
    IN  IF p < 100 THEN rest * (100 - p) ELSE 0

\* C17: for armor >= 0 the call returns d * 100 / (100 + armor left), the
\* lethality taken off first and the percent penetration applied after;
\* without penetration armor 0 leaves the damage as it is and armor 100
\* halves it; and the multiplier does not grow with the armor.
C17_MitigationFormula ==
    (mitResult # <<>> /\ mitArgs.enemy_armor >= 0)
    => LET d == mitArgs.damage
           a == mitArgs.enemy_armor
           p == mitArgs.armor_pen
           l == mitArgs.lethality
       IN  /\ LowestTerms(mitResult)
                = LowestTerms([num |-> d * 10000, den |-> 10000 + ArmorLeft(a, p, l)])
           /\ (p = 0 /\ l = 0 /\ a = 0) => mitResult.num = mitResult.den * d
           /\ (p = 0 /\ l = 0 /\ a = 100) => 2 * mitResult.num = mitResult.den * d
           /\ \A a2 \in MitArmors :
                 a2 >= a
                 => LET m1 == apply_physical_mitigation(1, a, p, l)
                        m2 == apply_physical_mitigation(1, a2, p, l)
                    IN  m2.num * m1.den <= m1.num * m2.den

\* C17 witness: a call with armor, lethality and percent penetration all at
\* work has returned.
C17_Witness ==
    /\ mitResult # <<>>
    /\ mitArgs = [damage |-> 100, enemy_armor |-> 100, armor_pen |-> 35, lethality |-> 10]
    /\ mitResult.den = 10000 + 90 * 65


\* The item dicts with their boolean-valued entries taken out.
NotBoolean(e) == e.kind # "bool"

WithoutBooleans(item_stats) ==
    [i \in 1..Len(item_stats) |-> SelectSeq(item_stats[i], NotBoolean)]

\* C18: boolean-valued item stats are ignored: every simulator's snapshot
\* is the one its items give with their boolean entries taken out.
C18_BooleansIgnored ==
    \A i \in 1..Len(sims) :
        sims[i].stats
          = calculate_base_stats(WithoutBooleans(sims[i].item_stats), sims[i].item_names)


\* C19: the stat snapshot is immutable once computed: no attack, ability
\* cast or rotation changes a value of self.stats.
C19_SnapshotImmutable ==
    [][sim'.LS = sim.LS /\ sim'.AS = sim.AS]_vars

\* C20: every attack's damage is made with the basic-attack coefficient and
\* the on-hit logic of the weapon whose ammo the attack took, the attack
\* that takes the weapon's last ammo included.
C20_TickUsesAmmoWeapon ==
    tick # <<>>
    => /\ tick.modifier = BaseDamageMod(tick.ammo_from).attack
       /\ tick.on_hit = OnHitBonus(tick.ammo_from)
       /\ tick.damage = AttackDamage(tick.ammo_from)

\* C21: an attack made with Crescendum in the main hand and k > 0 chakram
\* stacks returns strictly more damage than the same attack made with 0
\* stacks, and it reduces the stack count by 3, floored at 0.  Stated for
\* the attacks that take their ammo from Crescendum and leave it in the
\* main hand.
C21_DamageScalesWithStacks ==
    [][calls'.attacks = calls.attacks + 1
       => LET s0 == RotateIfEmpty(sim)
              s1 == use_ammo(s0, 1)
          IN  (s0.main_hand = "Crescendum" /\ s1.main_hand = "Crescendum")
              => /\ s1.chakram_stacks > 0
                    => tick'.damage > AttackReturn("Crescendum", 0)
                 /\ sim'.chakram_stacks
                      = Max(0, s1.chakram_stacks - STACKS_PER_HIT)]_vars

\* C22: the ability lockout set by a rotation is never shortened: after a
\* rotation completed at time t (one triggered by the ammo an ability cast
\* consumes included), every state with time < t + 1.5 s has the
\* next-ability-ready timestamp at t + 1.5 s or later.
C22_LockoutNeverShortened ==
    (rotated_at # <<>> /\ sim.time < rotated_at[1] + ROTATION_LOCKOUT)
    => sim.ability_cooldown >= rotated_at[1] + ROTATION_LOCKOUT

\* C23: in every state reachable during calculate_dps each weapon's
\* remaining ammo stays within 0..50: no attack and no ability cast takes
\* more ammo from a weapon than the weapon holds.
C23_AmmoWithinCapacity ==
    \A w \in WeaponNames :
        sim.weapon_ammo[w] >= 0 /\ sim.weapon_ammo[w] <= FULL_AMMO

(***************************************************************************)
(* SpecQueue: the combat methods called directly on a fresh simulator,     *)
(* with enough calls of rotate_weapon to take the queue all the way round  *)
(* and enough casts to empty a weapon, so that the rotations of lines 403,  *)
(* 450 and 488 happen between the direct ones.                             *)
(***************************************************************************)
QueueRotate ==
    /\ calls.rotations < MaxRotations
    /\ sim' = rotate_weapon(sim)
    /\ rotated_at' = RotatedAt(rotated_at, sim, sim')
    /\ calls' = [calls EXCEPT !.rotations = @ + 1]
    /\ UNCHANGED <<pc, duration, tick, total_damage, dps_result,
                   mitVars, statVars, validVars, optVars>>

QueueAttack(gain) ==
    /\ calls.attacks < MaxQueueAttacks
    /\ sim' = simulate_attack(sim, gain)
    /\ tick' = AttackTick(sim)
    /\ rotated_at' = RotatedAt(rotated_at, sim, sim')
    /\ calls' = [calls EXCEPT !.attacks = @ + 1]
    /\ UNCHANGED <<pc, duration, total_damage, dps_result, mitVars, statVars, validVars, optVars>>

QueueAbility ==
    /\ calls.casts < MaxQueueCasts
    /\ sim' = simulate_ability(sim)
    /\ rotated_at' = RotatedAt(rotated_at, sim, sim')
    /\ calls' = [calls EXCEPT !.casts = @ + 1]
    /\ UNCHANGED <<pc, duration, tick, total_damage, dps_result,
                   mitVars, statVars, validVars, optVars>>

QueueNext ==
    \/ QueueRotate
    \/ \E gain \in BOOLEAN : QueueAttack(gain)
    \/ QueueAbility

SpecQueue == SimInit /\ [][QueueNext]_vars

\* The fixed weapon order moved k places round.
CyclicShift(k) ==
    [i \in 1..Len(WeaponOrder) |-> WeaponOrder[((i - 1 + k) % Len(WeaponOrder)) + 1]]

\* The five cyclic rotations of the fixed weapon order.
CyclicShifts == {CyclicShift(k) : k \in 0..(Len(WeaponOrder) - 1)}

\* n consecutive calls of rotate_weapon.
RECURSIVE RotateTimes(_, _)
RotateTimes(s, n) == IF n = 0 THEN s ELSE RotateTimes(rotate_weapon(s), n - 1)

\* C24: the weapon queue is always a cyclic rotation of Calibrum, Severum,
\* Gravitum, Infernum, Crescendum holding each weapon once; main_hand is its
\* first element and off_hand its second, so the two differ; and five
\* consecutive rotations bring the queue back to the order it had.  With
\* the combat methods called directly only rotate_weapon advances the
\* time, by 1 s, so the queue is the fixed order moved round once per
\* second elapsed.
C24_QueueIsCyclicRotation ==
    /\ sim.weapon_queue \in CyclicShifts
    /\ Len(sim.weapon_queue) = Cardinality(WeaponNames)
    /\ \A w \in WeaponNames : \E i \in 1..Len(sim.weapon_queue) : sim.weapon_queue[i] = w
    /\ sim.main_hand = sim.weapon_queue[1]
    /\ sim.off_hand = sim.weapon_queue[2]
    /\ sim.main_hand # sim.off_hand
    /\ RotateTimes(sim, Len(WeaponOrder)).weapon_queue = sim.weapon_queue
    /\ sim.weapon_queue = CyclicShift(sim.time \div ASSEMBLY_TIME)

\* C24 witness: five calls of rotate_weapon and nothing else have taken the
\* queue through its five orders, and it is in its first order again.
C24_Witness ==
    /\ calls = [attacks |-> 0, casts |-> 0, rotations |-> Len(WeaponOrder)]
    /\ sim.time = Len(WeaponOrder) * ASSEMBLY_TIME
    /\ sim.weapon_queue = WeaponOrder
    /\ sim.main_hand = "Calibrum"
    /\ sim.off_hand = "Severum"

====
